---- MODULE Spec2Model ----
\* A model of package graceful: Start (startup worker, trigger wait, shutdown
\* worker and collection loop), Shutdown (the package-level channel rte) and
\* the contexts, channels and timers they use.
EXTENDS Integers, Sequences, FiniteSets, TLC

\* ---------------------------------------------------------------- bounds
MaxStartup == 2      \* at most this many startup functions
MaxShutdown == 2     \* at most this many shutdown functions
MaxErrs == 1         \* distinct non-nil errors that callers pass to Shutdown
MaxMulti == 2        \* at most this many functions composed by Multi
MaxOpts == 2         \* at most this many options passed to Start

\* ---------------------------------------------------------------- values
\* error values; Nil is Go's nil error
Nil == [src |-> "nil", idx |-> 0]
DeadlineExceeded == [src |-> "context", idx |-> 1]
Canceled == [src |-> "context", idx |-> 2]
StartupErr(i) == [src |-> "startup", idx |-> i]
ShutdownErr(i) == [src |-> "shutdown", idx |-> i]
RuntimeErr(c) == [src |-> "runtime", idx |-> c]
MultiErr(i) == [src |-> "multi", idx |-> i]
OptionErr(k) == [src |-> "options", idx |-> k]

\* what one call of a Func does: return nil, return its error, never return
Behaviours == {"ok", "err", "hang"}

\* the signals of config.signals (os.Interrupt is SIGINT)
Signals == {"SIGINT", "SIGTERM"}
NoSignal == "nil"
\* a signal a caller adds with WithSignals
ExtraSignals == {"SIGHUP"}

\* capacity of the channels fnErrs, rte and osSig
ChanCap == 1

VARIABLES
    startupFns,     \* len(startupFns)
    shutdownFns,    \* len(shutdownFns)
    config,         \* [startupTimeout, shutdownTimeout], 0 = not configured
    signals,        \* config.signals, as the set signal.Notify registers
    opts,           \* the options Start has not parsed yet
    again,          \* this call of Start is not the first one of the process
    carried,        \* <<e>>: the value pending in rte when this call began
    pc,             \* where the goroutine that calls Start is
    er,             \* the ExitReason under construction
    fnErrs,         \* chan error, capacity 1, shared by both phases
    rte,            \* package-level chan error, capacity 1
    osSig,          \* chan os.Signal, capacity 1
    stCtx,          \* startup context
    sdCtx,          \* shutdown context
    stW,            \* startup worker goroutine: [pc, i, beh]
    sdW,            \* shutdown worker goroutine: [pc, i, beh, val]
    trigger,        \* branch taken by the trigger select: "none", "rte", "os"
    sdIter,         \* iterations of the collection loop completed
    stInvoked,      \* startup functions invoked, in order of invocation
    stActive,       \* startup functions invoked and not yet returned
    stResults,      \* <<i, error>> per returned startup function, in order
    sdInvoked,      \* shutdown functions invoked, in order of invocation
    sdActive,       \* shutdown functions invoked and not yet returned
    sdResults,      \* <<i, error>> per returned shutdown function, in order
    sdReceived,     \* values the collection loop received from fnErrs, in order
    rteFirst,       \* <<e>>: the first value a call of Shutdown sent into rte
    rteDropped,     \* a call of Shutdown took the default branch with a value
                    \* other than the pending one, before the trigger select
    stLate,         \* the startup deadline passed while a startup function ran
    sdLate,         \* a shutdown function returned after the shutdown deadline
    fns,            \* Multi: len(fns)
    callCtx,        \* Multi: the context the composed function is called with
    multiPc,        \* Multi: where the composed function is
    fnState,        \* Multi: per function, the state of its goroutine
    errCh,          \* Multi: chan error, capacity len(fns)
    multiIter,      \* Multi: iterations of the collection loop completed
    err,            \* Multi: the variable err of the composed function
    ret,            \* Multi: <<e>> once the composed function returned e
    reported        \* Multi: <<i, error>> per send into errCh, in order

startVars == <<startupFns, shutdownFns, config, signals, opts, again, carried, pc, er, fnErrs, rte, osSig,
               stCtx, sdCtx, stW, sdW, trigger, sdIter, stInvoked,
               stActive, stResults, sdInvoked, sdActive, sdResults, sdReceived,
               rteFirst, rteDropped, stLate, sdLate>>
multiVars == <<fns, callCtx, multiPc, fnState, errCh, multiIter, err, ret, reported>>

vars == <<startVars, multiVars>>

envVars == <<startupFns, shutdownFns, config, signals, opts, again, carried,
            multiVars>>
stLog == <<stInvoked, stActive, stResults, stLate>>
sdLog == <<sdInvoked, sdActive, sdResults, sdReceived, sdLate>>
rteLog == <<rteFirst, rteDropped>>

\* ---------------------------------------------------------------- contexts
\* context.Background() or context.WithTimeout(ctx, d)
NewCtx(d) == IF d > 0 THEN "live" ELSE "background"
\* the cancel function: nop for Background, first cause wins otherwise
Cancel(ctx) == IF ctx = "live" THEN "Canceled" ELSE ctx
\* <-ctx.Done() is ready
CtxDone(ctx) == ctx \in {"DeadlineExceeded", "Canceled"}
\* ctx.Err()
CtxErr(ctx) ==
    IF ctx = "DeadlineExceeded" THEN DeadlineExceeded
    ELSE IF ctx = "Canceled" THEN Canceled
    ELSE Nil

\* ---------------------------------------------------------------- initial state
\* er, fnErrs and the package-level rte when Start is called; no goroutine,
\* context or signal channel of Start exists yet
StartFresh ==
    /\ er = [OsSignal |-> NoSignal, ErrStartup |-> Nil, ErrRuntime |-> Nil,
             ErrsShutdown |-> <<>>]
    /\ fnErrs = <<>>
    /\ rte = <<>>
    /\ osSig = <<>>
    /\ stCtx = "none"
    /\ sdCtx = "none"
    /\ stW = [pc |-> "off", i |-> 1, beh |-> "ok"]
    /\ sdW = [pc |-> "off", i |-> 1, beh |-> "ok", val |-> Nil]
    /\ trigger = "none"
    /\ sdIter = 0
    /\ stInvoked = <<>>
    /\ stActive = {}
    /\ stResults = <<>>
    /\ sdInvoked = <<>>
    /\ sdActive = {}
    /\ sdResults = <<>>
    /\ sdReceived = <<>>
    /\ rteFirst = <<>>
    /\ rteDropped = FALSE
    /\ stLate = FALSE
    /\ sdLate = FALSE

\* Start has parsed its options without error: every configuration they give
StartInit ==
    /\ startupFns \in 0..MaxStartup
    /\ shutdownFns \in 0..MaxShutdown
    /\ config \in [startupTimeout : {0, 1}, shutdownTimeout : {0, 1}]
    /\ signals = Signals
    /\ opts = <<>>
    /\ again = FALSE
    /\ carried = <<>>
    /\ pc = "start"
    /\ StartFresh

\* no function composed by Multi is being called
MultiOff ==
    /\ fns = 0
    /\ callCtx = "none"
    /\ multiPc = "off"
    /\ fnState = <<>>
    /\ errCh = <<>>
    /\ multiIter = 0
    /\ err = Nil
    /\ ret = <<>>
    /\ reported = <<>>

Init == StartInit /\ MultiOff

\* ---------------------------------------------------------------- Shutdown(err)
\* a Shutdown that replaces the pending value (last call wins)
ShutdownOverwrite(e) ==
    /\ pc # "done"
    /\ rte' = <<e>>
    /\ rteFirst' = IF rteFirst = <<>> THEN <<e>> ELSE rteFirst
    /\ UNCHANGED <<envVars, pc, er, fnErrs, osSig, stCtx, sdCtx, stW, sdW,
                   trigger, sdIter, stLog, sdLog, rteDropped>>

\* select { case rte <- err: default: }
\* Callers call it before Start and while Start runs; a call after Start has
\* returned meets the same channel states as one made just before.
Shutdown(e) ==
    /\ pc # "done"
    /\ IF Len(rte) < ChanCap
       THEN /\ rte' = Append(rte, e)
            /\ rteFirst' = IF rteFirst = <<>> THEN <<e>> ELSE rteFirst
            /\ UNCHANGED rteDropped
       ELSE /\ rteDropped' = (rteDropped \/ (trigger = "none" /\ e # Head(rte)))
            /\ UNCHANGED <<rte, rteFirst>>
    /\ UNCHANGED <<envVars, pc, er, fnErrs, osSig, stCtx, sdCtx, stW, sdW,
                   trigger, sdIter, stLog, sdLog>>

\* ---------------------------------------------------------------- Start: startup
\* Start up to the first select: the startup context and the startup worker
StartEnter ==
    /\ pc = "start"
    /\ stCtx' = NewCtx(config.startupTimeout)
    /\ stW' = [stW EXCEPT !.pc = "loop", !.i = 1]
    /\ pc' = "stSelect"
    /\ UNCHANGED <<envVars, er, fnErrs, rte, osSig, sdCtx, sdW, trigger, sdIter, stLog, sdLog, rteLog>>

\* the timer of context.WithTimeout(stCtx, config.startupTimeout) fires
StTimerFire ==
    /\ stCtx = "live"
    /\ stCtx' = "DeadlineExceeded"
    /\ stLate' = (stLate \/ stW.pc = "run")
    /\ UNCHANGED <<envVars, pc, er, fnErrs, rte, osSig, sdCtx, stW, sdW,
                   trigger, sdIter, stInvoked, stActive,
                   stResults, sdLog, rteLog>>

\* a worker that starts fn(stCtx) without waiting for it (go fn(stCtx))
StWorkerInvokeAsync ==
    /\ stW.pc = "loop"
    /\ stW.i <= startupFns
    /\ \E b \in Behaviours : stW' = [stW EXCEPT !.i = stW.i + 1, !.beh = b]
    /\ stInvoked' = Append(stInvoked, stW.i)
    /\ stActive' = stActive \cup {stW.i}
    /\ UNCHANGED <<envVars, pc, er, fnErrs, rte, osSig, stCtx, sdCtx, sdW,
                   trigger, sdIter, stResults, stLate, sdLog, rteLog>>

\* the worker's loop reaches startupFns[i] and calls fn(stCtx)
StWorkerInvoke ==
    /\ stW.pc = "loop"
    /\ stW.i <= startupFns
    /\ \E b \in Behaviours : stW' = [stW EXCEPT !.pc = "run", !.beh = b]
    /\ stInvoked' = Append(stInvoked, stW.i)
    /\ stActive' = stActive \cup {stW.i}
    /\ UNCHANGED <<envVars, pc, er, fnErrs, rte, osSig, stCtx, sdCtx, sdW,
                   trigger, sdIter, stResults, stLate,
                   sdLog, rteLog>>

\* fn(stCtx) returns: nil continues the loop, an error leaves it
StStepReturn ==
    /\ stW.pc = "run"
    /\ stW.beh # "hang"
    /\ stActive' = stActive \ {stW.i}
    /\ IF stW.beh = "err"
       THEN /\ stResults' = Append(stResults, <<stW.i, StartupErr(stW.i)>>)
            /\ stW' = [stW EXCEPT !.pc = "sendErr"]
       ELSE /\ stResults' = Append(stResults, <<stW.i, Nil>>)
            /\ stW' = [stW EXCEPT !.pc = "loop", !.i = stW.i + 1]
    /\ UNCHANGED <<envVars, pc, er, fnErrs, rte, osSig, stCtx, sdCtx, sdW,
                   trigger, sdIter, stInvoked, stLate,
                   sdLog, rteLog>>

\* a worker that reports the error and goes on with the loop (no return)
StWorkerSendErrContinue ==
    /\ stW.pc = "sendErr"
    /\ Len(fnErrs) < ChanCap
    /\ fnErrs' = Append(fnErrs, StartupErr(stW.i))
    /\ stW' = [stW EXCEPT !.pc = "loop", !.i = stW.i + 1]
    /\ UNCHANGED <<envVars, pc, er, rte, osSig, stCtx, sdCtx, sdW, trigger,
                   sdIter, stLog, sdLog, rteLog>>

\* fnErrs <- err
StWorkerSendErr ==
    /\ stW.pc = "sendErr"
    /\ Len(fnErrs) < ChanCap
    /\ fnErrs' = Append(fnErrs, StartupErr(stW.i))
    /\ stW' = [stW EXCEPT !.pc = "cancel"]
    /\ UNCHANGED <<envVars, pc, er, rte, osSig, stCtx, sdCtx, sdW, trigger, sdIter, stLog, sdLog, rteLog>>

\* stCancel(); return
StWorkerCancel ==
    /\ stW.pc = "cancel"
    /\ stCtx' = Cancel(stCtx)
    /\ stW' = [stW EXCEPT !.pc = "done"]
    /\ UNCHANGED <<envVars, pc, er, fnErrs, rte, osSig, sdCtx, sdW, trigger, sdIter, stLog, sdLog, rteLog>>

\* a worker that stays in its loop after reporting nil and reports again
StWorkerSendNilAgain ==
    /\ stW.pc = "loop"
    /\ stW.i > startupFns
    /\ Len(fnErrs) < ChanCap
    /\ fnErrs' = Append(fnErrs, Nil)
    /\ UNCHANGED <<envVars, pc, er, rte, osSig, stCtx, sdCtx, stW, sdW, trigger, sdIter, stLog, sdLog, rteLog>>

\* a worker that reports only when there was a function to run
StWorkerSendNilIfAny ==
    /\ stW.pc = "loop"
    /\ stW.i > startupFns
    /\ Len(fnErrs) < ChanCap
    /\ fnErrs' = IF startupFns > 0 THEN Append(fnErrs, Nil) ELSE fnErrs
    /\ stW' = [stW EXCEPT !.pc = "done"]
    /\ UNCHANGED <<envVars, pc, er, rte, osSig, stCtx, sdCtx, sdW, trigger, sdIter, stLog, sdLog, rteLog>>

\* the loop is over: fnErrs <- nil
StWorkerSendNil ==
    /\ stW.pc = "loop"
    /\ stW.i > startupFns
    /\ Len(fnErrs) < ChanCap
    /\ fnErrs' = Append(fnErrs, Nil)
    /\ stW' = [stW EXCEPT !.pc = "done"]
    /\ UNCHANGED <<envVars, pc, er, rte, osSig, stCtx, sdCtx, sdW, trigger, sdIter, stLog, sdLog, rteLog>>

\* a Start that goes on to the trigger wait whatever the startup result
AfterStartupNoReturn(e) ==
    /\ er' = [er EXCEPT !.ErrStartup = e]
    /\ stCtx' = Cancel(stCtx)
    /\ pc' = "await"

\* after the first select: stCancel(), then return er or go on to signal.Notify
AfterStartup(e) ==
    /\ er' = [er EXCEPT !.ErrStartup = e]
    /\ stCtx' = Cancel(stCtx)
    /\ pc' = IF e # Nil THEN "done" ELSE "await"

\* a receive after which Start goes on whatever the worker reported
StSelectRecvProceeds ==
    /\ pc = "stSelect"
    /\ fnErrs # <<>>
    /\ AfterStartupNoReturn(Head(fnErrs))
    /\ fnErrs' = Tail(fnErrs)
    /\ UNCHANGED <<envVars, rte, osSig, sdCtx, stW, sdW, trigger, sdIter, stLog, sdLog, rteLog>>

\* case er.ErrStartup = <-fnErrs
StSelectRecv ==
    /\ pc = "stSelect"
    /\ fnErrs # <<>>
    /\ AfterStartup(Head(fnErrs))
    /\ fnErrs' = Tail(fnErrs)
    /\ UNCHANGED <<envVars, rte, osSig, sdCtx, stW, sdW, trigger, sdIter, stLog, sdLog, rteLog>>

\* a Done case that is taken only once no startup function is running
StSelectDoneWaits ==
    /\ pc = "stSelect"
    /\ CtxDone(stCtx)
    /\ stActive = {}
    /\ er' = [er EXCEPT !.ErrStartup = CtxErr(stCtx)]
    /\ pc' = "done"
    /\ UNCHANGED <<envVars, fnErrs, rte, osSig, stCtx, sdCtx, stW, sdW,
                   trigger, sdIter, stLog, sdLog, rteLog>>

\* case <-stCtx.Done(): er.ErrStartup = stCtx.Err()
StSelectDone ==
    /\ pc = "stSelect"
    /\ CtxDone(stCtx)
    /\ AfterStartup(CtxErr(stCtx))
    /\ UNCHANGED <<envVars, fnErrs, rte, osSig, sdCtx, stW, sdW, trigger, sdIter, stLog, sdLog, rteLog>>

\* ---------------------------------------------------------------- Start: trigger
\* signal.Notify(osSig, config.signals...) is in force and the runtime delivers
\* a signal: a non-blocking send, dropped when the channel is full. Nothing
\* reads osSig after the trigger select, so deliveries after it are not kept.
DeliverSignal(s) ==
    /\ pc = "await"
    /\ s \in signals
    /\ osSig' = IF Len(osSig) < ChanCap THEN Append(osSig, s) ELSE osSig
    /\ UNCHANGED <<envVars, pc, er, fnErrs, rte, stCtx, sdCtx, stW, sdW,
                   trigger, sdIter, stLog, sdLog, rteLog>>

\* after the trigger select: the shutdown context and the shutdown worker
EnterShutdown ==
    /\ sdCtx' = NewCtx(config.shutdownTimeout)
    /\ sdW' = [sdW EXCEPT !.pc = "loop", !.i = 1]
    /\ pc' = "sdLoop"

\* case er.ErrRuntime = <-rte
\* (osSig is local to Start and never read again: its content is let go)
AwaitRte ==
    /\ pc = "await"
    /\ rte # <<>>
    /\ er' = [er EXCEPT !.ErrRuntime = Head(rte)]
    /\ rte' = Tail(rte)
    /\ trigger' = "rte"
    /\ osSig' = <<>>
    /\ EnterShutdown
    /\ UNCHANGED <<envVars, fnErrs, stCtx, stW, sdIter, stLog, sdLog, rteLog>>

\* case er.OsSignal = <-osSig
AwaitSig ==
    /\ pc = "await"
    /\ osSig # <<>>
    /\ er' = [er EXCEPT !.OsSignal = Head(osSig)]
    /\ osSig' = Tail(osSig)
    /\ trigger' = "os"
    /\ EnterShutdown
    /\ UNCHANGED <<envVars, fnErrs, rte, stCtx, stW, sdIter, stLog, sdLog, rteLog>>

\* ---------------------------------------------------------------- Start: shutdown
\* the timer of context.WithTimeout(sdCtx, config.shutdownTimeout) fires
SdTimerFire ==
    /\ sdCtx = "live"
    /\ sdCtx' = "DeadlineExceeded"
    /\ UNCHANGED <<envVars, pc, er, fnErrs, rte, osSig, stCtx, stW, sdW,
                   trigger, sdIter, stLog, sdLog, rteLog>>

\* a worker that starts fn(sdCtx) without waiting for it (one goroutine each)
SdWorkerInvokeAsync ==
    /\ sdW.pc = "loop"
    /\ sdW.i <= shutdownFns
    /\ \E b \in Behaviours : sdW' = [sdW EXCEPT !.i = sdW.i + 1, !.beh = b]
    /\ sdInvoked' = Append(sdInvoked, sdW.i)
    /\ sdActive' = sdActive \cup {sdW.i}
    /\ UNCHANGED <<envVars, pc, er, fnErrs, rte, osSig, stCtx, sdCtx, stW,
                   trigger, sdIter, stLog, sdResults, sdReceived, sdLate,
                   rteLog>>

\* the worker's loop reaches shutdownFns[i] and calls fn(sdCtx)
SdWorkerInvoke ==
    /\ sdW.pc = "loop"
    /\ sdW.i <= shutdownFns
    /\ \E b \in Behaviours : sdW' = [sdW EXCEPT !.pc = "run", !.beh = b]
    /\ sdInvoked' = Append(sdInvoked, sdW.i)
    /\ sdActive' = sdActive \cup {sdW.i}
    /\ UNCHANGED <<envVars, pc, er, fnErrs, rte, osSig, stCtx, sdCtx, stW,
                   trigger, sdIter, stLog, sdResults, sdReceived, sdLate,
                   rteLog>>

\* fn(sdCtx) returns; its value is what the worker is about to send
SdStepReturn ==
    /\ sdW.pc = "run"
    /\ sdW.beh # "hang"
    /\ sdActive' = sdActive \ {sdW.i}
    /\ sdLate' = (sdLate \/ sdCtx = "DeadlineExceeded")
    /\ LET v == IF sdW.beh = "err" THEN ShutdownErr(sdW.i) ELSE Nil
       IN  /\ sdResults' = Append(sdResults, <<sdW.i, v>>)
           /\ sdW' = [sdW EXCEPT !.pc = "send", !.val = v]
    /\ UNCHANGED <<envVars, pc, er, fnErrs, rte, osSig, stCtx, sdCtx, stW,
                   trigger, sdIter, stLog, sdInvoked,
                   sdReceived, rteLog>>

\* fnErrs <- (the value fn returned), then the next iteration
SdWorkerSend ==
    /\ sdW.pc = "send"
    /\ Len(fnErrs) < ChanCap
    /\ fnErrs' = Append(fnErrs, sdW.val)
    /\ sdW' = [sdW EXCEPT !.pc = "loop", !.i = sdW.i + 1, !.val = Nil]
    /\ UNCHANGED <<envVars, pc, er, rte, osSig, stCtx, sdCtx, stW, trigger, sdIter, stLog, sdLog, rteLog>>

\* the worker's loop is over
SdWorkerExit ==
    /\ sdW.pc = "loop"
    /\ sdW.i > shutdownFns
    /\ sdW' = [sdW EXCEPT !.pc = "done"]
    /\ UNCHANGED <<envVars, pc, er, fnErrs, rte, osSig, stCtx, sdCtx, stW,
                   trigger, sdIter, stLog, sdLog, rteLog>>

\* a collection loop that stops at the first non-nil error
SdLoopRecvShortCircuit ==
    /\ pc = "sdLoop"
    /\ sdIter < shutdownFns
    /\ fnErrs # <<>>
    /\ LET e == Head(fnErrs)
       IN  /\ er' = IF e # Nil
                    THEN [er EXCEPT !.ErrsShutdown = Append(@, e)]
                    ELSE er
           /\ sdReceived' = Append(sdReceived, e)
           /\ pc' = IF e # Nil THEN "done" ELSE pc
           /\ sdCtx' = IF e # Nil THEN Cancel(sdCtx) ELSE sdCtx
    /\ fnErrs' = Tail(fnErrs)
    /\ sdIter' = sdIter + 1
    /\ UNCHANGED <<envVars, rte, osSig, stCtx, stW, sdW, trigger,
                   stLog, sdInvoked, sdActive, sdResults, sdLate, rteLog>>

\* a receive that puts the error in front of the ones collected so far
SdLoopRecvPrepend ==
    /\ pc = "sdLoop"
    /\ sdIter < shutdownFns
    /\ fnErrs # <<>>
    /\ LET e == Head(fnErrs)
       IN  /\ er' = IF e # Nil
                    THEN [er EXCEPT !.ErrsShutdown = <<e>> \o @]
                    ELSE er
           /\ sdReceived' = Append(sdReceived, e)
    /\ fnErrs' = Tail(fnErrs)
    /\ sdIter' = sdIter + 1
    /\ UNCHANGED <<envVars, pc, rte, osSig, stCtx, sdCtx, stW, sdW, trigger,
                   stLog, sdInvoked, sdActive, sdResults, sdLate, rteLog>>

\* collection loop, case e := <-fnErrs
SdLoopRecv ==
    /\ pc = "sdLoop"
    /\ sdIter < shutdownFns
    /\ fnErrs # <<>>
    /\ LET e == Head(fnErrs)
       IN  /\ er' = IF e # Nil
                    THEN [er EXCEPT !.ErrsShutdown = Append(@, e)]
                    ELSE er
           /\ sdReceived' = Append(sdReceived, e)
    /\ fnErrs' = Tail(fnErrs)
    /\ sdIter' = sdIter + 1
    /\ UNCHANGED <<envVars, pc, rte, osSig, stCtx, sdCtx, stW, sdW, trigger,
                   stLog, sdInvoked, sdActive, sdResults, sdLate, rteLog>>

\* a timeout case that returns without recording the timeout
SdLoopTimeoutNoAppend ==
    /\ pc = "sdLoop"
    /\ sdIter < shutdownFns
    /\ CtxDone(sdCtx)
    /\ sdCtx' = Cancel(sdCtx)
    /\ pc' = "done"
    /\ UNCHANGED <<envVars, er, fnErrs, rte, osSig, stCtx, stW, sdW,
                   trigger, sdIter, stLog, sdLog, rteLog>>

\* a timeout case without the break: the loop goes on to its next iteration
SdLoopTimeoutNoBreak ==
    /\ pc = "sdLoop"
    /\ sdIter < shutdownFns
    /\ CtxDone(sdCtx)
    /\ er' = [er EXCEPT !.ErrsShutdown = Append(@, CtxErr(sdCtx))]
    /\ sdIter' = sdIter + 1
    /\ UNCHANGED <<envVars, pc, fnErrs, rte, osSig, stCtx, sdCtx, stW, sdW,
                   trigger, stLog, sdLog, rteLog>>

\* collection loop, case <-sdCtx.Done(): append sdCtx.Err(), break, return
SdLoopTimeout ==
    /\ pc = "sdLoop"
    /\ sdIter < shutdownFns
    /\ CtxDone(sdCtx)
    /\ er' = [er EXCEPT !.ErrsShutdown = Append(@, CtxErr(sdCtx))]
    /\ sdCtx' = Cancel(sdCtx)
    /\ pc' = "done"
    /\ UNCHANGED <<envVars, fnErrs, rte, osSig, stCtx, stW, sdW, trigger, sdIter, stLog, sdLog, rteLog>>

\* the collection loop has run len(shutdownFns) times: return er (sdCancel)
SdLoopExit ==
    /\ pc = "sdLoop"
    /\ sdIter >= shutdownFns
    /\ sdCtx' = Cancel(sdCtx)
    /\ pc' = "done"
    /\ UNCHANGED <<envVars, er, fnErrs, rte, osSig, stCtx, stW, sdW, trigger, sdIter, stLog, sdLog, rteLog>>

\* ---------------------------------------------------------------- specification
\* the errors callers pass to Shutdown; nil is allowed
CallErrs == {Nil} \cup {RuntimeErr(k) : k \in 1..MaxErrs}

Next ==
    \/ \E e \in CallErrs : Shutdown(e)
    \/ StartEnter
    \/ StTimerFire
    \/ StWorkerInvoke
    \/ StStepReturn
    \/ StWorkerSendErr
    \/ StWorkerCancel
    \/ StWorkerSendNil
    \/ StSelectRecv
    \/ StSelectDone
    \/ \E s \in Signals \cup ExtraSignals : DeliverSignal(s)
    \/ AwaitRte
    \/ AwaitSig
    \/ SdTimerFire
    \/ SdWorkerInvoke
    \/ SdStepReturn
    \/ SdWorkerSend
    \/ SdWorkerExit
    \/ SdLoopRecv
    \/ SdLoopTimeout
    \/ SdLoopExit

Spec == Init /\ [][Next]_vars

\* The Go scheduler runs every runnable goroutine and the runtime fires every
\* armed timer; a function that returns does so eventually. Calls of Shutdown
\* and OS signals are the environment's and may never come.
Fairness ==
    /\ WF_vars(StartEnter)
    /\ WF_vars(StTimerFire)
    /\ WF_vars(StWorkerInvoke)
    /\ WF_vars(StStepReturn)
    /\ WF_vars(StWorkerSendErr)
    /\ WF_vars(StWorkerCancel)
    /\ WF_vars(StWorkerSendNil)
    /\ WF_vars(StSelectRecv \/ StSelectDone)
    /\ WF_vars(AwaitRte \/ AwaitSig)
    /\ WF_vars(SdTimerFire)
    /\ WF_vars(SdWorkerInvoke)
    /\ WF_vars(SdStepReturn)
    /\ WF_vars(SdWorkerSend)
    /\ WF_vars(SdWorkerExit)
    /\ WF_vars(SdLoopRecv \/ SdLoopTimeout)
    /\ WF_vars(SdLoopExit)

FairSpec == Spec /\ Fairness

\* ---------------------------------------------------------------- options
optionStartupTimeout == 1
optionShutdownTimeout == 2
optionSignals == 10
\* a code that no case of the switch in parseOptions matches
optionOther == 0

\* the errors parseOptions returns; the shutdown case reuses the text of the
\* startup case for its cast failure
ErrStartupNotPositive == OptionErr(1)    \* "startup timeout must be positive"
ErrShutdownNotPositive == OptionErr(2)   \* "shutdown timeout must be positive"
ErrCastDuration == OptionErr(3)          \* "failed to cast StartupTimeout to time.Duration"
ErrCastSignals == OptionErr(4)           \* "failed to cast signals"

\* option.value: a time.Duration (0 stands for the non-positive ones, 1 for
\* the positive ones), a []os.Signal, or a value of another type
Duration(d) == [type |-> "time.Duration", d |-> d, sigs |-> <<>>]
SignalList(l) == [type |-> "[]os.Signal", d |-> 0, sigs |-> l]
OtherValue == [type |-> "string", d |-> 0, sigs |-> <<>>]
Payloads == {Duration(0), Duration(1), OtherValue} \cup
            {SignalList(<<sg>>) : sg \in ExtraSignals}

Options ==
    {[code |-> c, value |-> v] :
        c \in {optionStartupTimeout, optionShutdownTimeout, optionSignals},
        v \in Payloads}
    \cup {[code |-> optionOther, value |-> OtherValue]}

Range(seq) == {seq[k] : k \in 1..Len(seq)}

\* one iteration of the loop of parseOptions: [err, config]
ParseOption(cfg, opt) ==
    IF opt.code = optionStartupTimeout
    THEN IF opt.value.type = "time.Duration"
         THEN IF opt.value.d < 1
              THEN [err |-> ErrStartupNotPositive, config |-> cfg]
              ELSE [err |-> Nil,
                    config |-> [cfg EXCEPT !.startupTimeout = opt.value.d]]
         ELSE [err |-> ErrCastDuration, config |-> cfg]
    ELSE IF opt.code = optionShutdownTimeout
    THEN IF opt.value.type = "time.Duration"
         THEN IF opt.value.d < 1
              THEN [err |-> ErrShutdownNotPositive, config |-> cfg]
              ELSE [err |-> Nil,
                    config |-> [cfg EXCEPT !.shutdownTimeout = opt.value.d]]
         ELSE [err |-> ErrCastDuration, config |-> cfg]
    ELSE IF opt.code = optionSignals
    THEN IF opt.value.type = "[]os.Signal"
         THEN [err |-> Nil,
               config |-> [cfg EXCEPT !.signals = @ \cup Range(opt.value.sigs)]]
         ELSE [err |-> ErrCastSignals, config |-> cfg]
    ELSE [err |-> Nil, config |-> cfg]

\* parseOptions(config, opts): the first error ends the loop
RECURSIVE parseOptions(_, _)
parseOptions(cfg, os) ==
    IF os = <<>> THEN [err |-> Nil, config |-> cfg]
    ELSE LET r == ParseOption(cfg, Head(os))
         IN IF r.err # Nil THEN r ELSE parseOptions(r.config, Tail(os))

\* Start is called with any list of options
OptInit ==
    /\ startupFns \in 0..MaxStartup
    /\ shutdownFns \in 0..MaxShutdown
    /\ config = [startupTimeout |-> 0, shutdownTimeout |-> 0]
    /\ signals = Signals
    /\ opts \in UNION {[1..n -> Options] : n \in 0..MaxOpts}
    /\ again = FALSE
    /\ carried = <<>>
    /\ pc = "parse"
    /\ StartFresh
    /\ MultiOff

\* a Start that records the error of parseOptions and goes on
StartParseNoReturn ==
    /\ pc = "parse"
    /\ LET r == parseOptions([startupTimeout |-> config.startupTimeout,
                              shutdownTimeout |-> config.shutdownTimeout,
                              signals |-> signals], opts)
       IN er' = [er EXCEPT !.ErrStartup = r.err]
    /\ pc' = "start"
    /\ UNCHANGED <<startupFns, shutdownFns, config, signals, opts, again,
                   carried, multiVars, fnErrs, rte, osSig, stCtx, sdCtx, stW, sdW, trigger, sdIter,
                   stLog, sdLog, rteLog>>

\* config := &config{signals: ...}; if err := parseOptions(config, opts);
\* err != nil { er.ErrStartup = err; return er }. The options are not read
\* again once they are parsed.
StartParse ==
    /\ pc = "parse"
    /\ LET r == parseOptions([startupTimeout |-> config.startupTimeout,
                              shutdownTimeout |-> config.shutdownTimeout,
                              signals |-> signals], opts)
       IN IF r.err # Nil
          THEN /\ er' = [er EXCEPT !.ErrStartup = r.err]
               /\ pc' = "done"
               /\ UNCHANGED <<config, signals, opts>>
          ELSE /\ config' = [startupTimeout |-> r.config.startupTimeout,
                             shutdownTimeout |-> r.config.shutdownTimeout]
               /\ signals' = r.config.signals
               /\ opts' = <<>>
               /\ pc' = "start"
               /\ UNCHANGED er
    /\ UNCHANGED <<startupFns, shutdownFns, again, carried, multiVars, fnErrs,
                   rte, osSig, stCtx, sdCtx, stW, sdW, trigger, sdIter, stLog,
                   sdLog, rteLog>>

OptNext == StartParse \/ Next

OptSpec == OptInit /\ [][OptNext]_vars

\* ---------------------------------------------------------------- Start again
\* the local state of a new call of Start; rte is kept
StartLocals(rteNow) ==
    /\ pc' = "start"
    /\ er' = [OsSignal |-> NoSignal, ErrStartup |-> Nil, ErrRuntime |-> Nil,
              ErrsShutdown |-> <<>>]
    /\ fnErrs' = <<>>
    /\ osSig' = <<>>
    /\ stCtx' = "none"
    /\ sdCtx' = "none"
    /\ stW' = [pc |-> "off", i |-> 1, beh |-> "ok"]
    /\ sdW' = [pc |-> "off", i |-> 1, beh |-> "ok", val |-> Nil]
    /\ trigger' = "none"
    /\ sdIter' = 0
    /\ stInvoked' = <<>>
    /\ stActive' = {}
    /\ stResults' = <<>>
    /\ sdInvoked' = <<>>
    /\ sdActive' = {}
    /\ sdResults' = <<>>
    /\ sdReceived' = <<>>
    /\ rteFirst' = rteNow
    /\ rteDropped' = FALSE
    /\ stLate' = FALSE
    /\ sdLate' = FALSE
    /\ again' = TRUE
    /\ carried' = rteNow
    /\ config' \in [startupTimeout : {0, 1}, shutdownTimeout : {0, 1}]
    /\ UNCHANGED <<startupFns, shutdownFns, signals, opts, multiVars>>

\* a Start that begins with an empty rte
StartAgainFreshRte ==
    /\ pc = "done"
    /\ rte' = <<>>
    /\ StartLocals(rte)

\* Start has returned and the process calls it again, with the same functions
\* and any configuration: er, fnErrs, osSig, the contexts and the goroutines are new
\* (the goroutines of the call before, if any are left, send into the fnErrs
\* of that call); the package-level rte is the same channel
StartAgain ==
    /\ pc = "done"
    /\ rte' = rte
    /\ StartLocals(rte)

RerunNext == StartAgain \/ Next

RerunSpec == Init /\ [][RerunNext]_vars

\* ---------------------------------------------------------------- Multi
\* a call of the function Multi(fns...) returns, with a context that is
\* context.Background(), cancellable, or already canceled
MultiInit ==
    /\ StartInit
    /\ startupFns = 0
    /\ shutdownFns = 0
    /\ config = [startupTimeout |-> 0, shutdownTimeout |-> 0]
    /\ fns \in 0..MaxMulti
    /\ callCtx \in {"background", "live", "Canceled"}
    /\ multiPc = "call"
    /\ fnState = [i \in 1..fns |-> "idle"]
    /\ errCh = <<>>
    /\ multiIter = 0
    /\ err = Nil
    /\ ret = <<>>
    /\ reported = <<>>

\* errCh := make(chan error, len(fns)); one goroutine per function; var err
MultiCall ==
    /\ multiPc = "call"
    /\ multiPc' = "loop"
    /\ errCh' = <<>>
    /\ err' = Nil
    /\ UNCHANGED <<startVars, fns, callCtx, fnState, multiIter, ret, reported>>

\* the goroutine of function i calls f(ctx); the call returns nil, returns
\* an error or never returns
MultiFnInvoke(i) ==
    /\ multiPc # "call"
    /\ fnState[i] = "idle"
    /\ \E b \in Behaviours : fnState' = [fnState EXCEPT ![i] = b]
    /\ UNCHANGED <<startVars, fns, callCtx, multiPc, errCh, multiIter, err, ret, reported>>

\* errCh <- f(ctx): never blocks, the channel has room for every function
MultiFnReport(i) ==
    /\ fnState[i] \in {"ok", "err"}
    /\ Len(errCh) < fns
    /\ LET e == IF fnState[i] = "err" THEN MultiErr(i) ELSE Nil
       IN /\ errCh' = Append(errCh, e)
          /\ reported' = Append(reported, <<i, e>>)
    /\ fnState' = [fnState EXCEPT ![i] = "sent"]
    /\ UNCHANGED <<startVars, fns, callCtx, multiPc, multiIter, err, ret>>

\* the caller's context is canceled or its deadline passes
MultiCtxCancel ==
    /\ callCtx = "live"
    /\ callCtx' \in {"Canceled", "DeadlineExceeded"}
    /\ UNCHANGED <<startVars, fns, multiPc, fnState, errCh, multiIter, err, ret, reported>>

\* a receive that keeps the last error instead of the first
MultiRecvLastError ==
    /\ multiPc = "loop"
    /\ multiIter < fns
    /\ errCh # <<>>
    /\ err' = IF Head(errCh) # Nil THEN Head(errCh) ELSE err
    /\ errCh' = Tail(errCh)
    /\ multiIter' = multiIter + 1
    /\ UNCHANGED <<startVars, fns, callCtx, multiPc, fnState, ret, reported>>

\* case e := <-errCh: if err == nil && e != nil { err = e }
MultiRecv ==
    /\ multiPc = "loop"
    /\ multiIter < fns
    /\ errCh # <<>>
    /\ err' = IF err = Nil /\ Head(errCh) # Nil THEN Head(errCh) ELSE err
    /\ errCh' = Tail(errCh)
    /\ multiIter' = multiIter + 1
    /\ UNCHANGED <<startVars, fns, callCtx, multiPc, fnState, ret, reported>>

\* a loop that notices the cancellation only together with a result
MultiDoneAfterResult ==
    /\ multiPc = "loop"
    /\ multiIter < fns
    /\ CtxDone(callCtx)
    /\ errCh # <<>>
    /\ ret' = <<CtxErr(callCtx)>>
    /\ multiPc' = "done"
    /\ UNCHANGED <<startVars, fns, callCtx, fnState, errCh, multiIter, err, reported>>

\* case <-ctx.Done(): return ctx.Err()
MultiDone ==
    /\ multiPc = "loop"
    /\ multiIter < fns
    /\ CtxDone(callCtx)
    /\ ret' = <<CtxErr(callCtx)>>
    /\ multiPc' = "done"
    /\ UNCHANGED <<startVars, fns, callCtx, fnState, errCh, multiIter, err, reported>>

\* the loop has run len(fns) times: return err
MultiReturn ==
    /\ multiPc = "loop"
    /\ multiIter >= fns
    /\ ret' = <<err>>
    /\ multiPc' = "done"
    /\ UNCHANGED <<startVars, fns, callCtx, fnState, errCh, multiIter, err, reported>>

MultiNext ==
    \/ MultiCall
    \/ \E i \in 1..fns : MultiFnInvoke(i)
    \/ \E i \in 1..fns : MultiFnReport(i)
    \/ MultiCtxCancel
    \/ MultiRecv
    \/ MultiDone
    \/ MultiReturn

MultiSpec == MultiInit /\ [][MultiNext]_vars

\* every goroutine and the composed function keep running; the select takes
\* one of its ready cases; the context need never be canceled
MultiFairness ==
    /\ WF_vars(MultiCall)
    /\ \A i \in 1..MaxMulti : WF_vars(i \in 1..fns /\ MultiFnInvoke(i))
    /\ \A i \in 1..MaxMulti : WF_vars(i \in 1..fns /\ MultiFnReport(i))
    /\ WF_vars(MultiRecv \/ MultiDone)
    /\ WF_vars(MultiReturn)

MultiFairSpec == MultiSpec /\ MultiFairness

\* ---------------------------------------------------------------- helpers of the properties
\* the errors of a log of <<i, error>> pairs, in order
Vals(log) == [k \in 1..Len(log) |-> log[k][2]]
IsErr(e) == e # Nil
NonNil(seq) == SelectSeq(seq, IsErr)
\* Start has returned er
Returned == pc = "done"
\* some startup function has returned a non-nil error
StartupFailedAt(k) == k \in 1..Len(stResults) /\ stResults[k][2] # Nil

\* ---------------------------------------------------------------- C1
\* C1: if a startup function returned a non-nil error e and the startup
\* deadline never elapsed, the ExitReason that Start returns has ErrStartup = e
\* (and not a context error), with or without a startup timeout.
C1_StartupErrorReported ==
    \A k \in 1..Len(stResults) :
        (Returned /\ StartupFailedAt(k) /\ stCtx # "DeadlineExceeded")
            => er.ErrStartup = stResults[k][2]

\* ---------------------------------------------------------------- C2
\* C2: once a startup function has returned a non-nil error, no startup
\* function declared after it is invoked, neither before Start returns nor
\* later by the startup worker.
C2_NoStepAfterError ==
    /\ \A k \in 1..Len(stResults) : \A j \in 1..Len(stInvoked) :
            StartupFailedAt(k) => stInvoked[j] <= stResults[k][1]
    /\ \A k \in 1..Len(stResults) :
            StartupFailedAt(k) => (k = Len(stResults) /\ stActive = {})

\* a startup function that is not the last one failed, Start has returned and
\* the worker is gone
C2_Witness ==
    /\ Returned
    /\ stW.pc = "done"
    /\ \E k \in 1..Len(stResults) :
            StartupFailedAt(k) /\ stResults[k][1] < startupFns

\* ---------------------------------------------------------------- C3
\* C3: startup functions are invoked in declaration order, function i+1 only
\* after function i has returned nil, and at most one of them is executing at
\* any time.
C3_StartupSequential ==
    /\ \A j \in 1..Len(stInvoked) : stInvoked[j] = j
    /\ Cardinality(stActive) <= 1
    /\ \A j \in 2..Len(stInvoked) :
            \E k \in 1..Len(stResults) : stResults[k] = <<j - 1, Nil>>
    /\ \A i \in stActive : i = Len(stInvoked)

\* the second startup function is executing after the first returned nil
C3_Witness ==
    /\ stInvoked = <<1, 2>>
    /\ stActive = {2}
    /\ stResults = <<<<1, Nil>>>>

\* ---------------------------------------------------------------- C4
Shutdowned == Returned /\ trigger # "none"
StartupShape ==
    /\ er.ErrStartup # Nil
    /\ er.OsSignal = NoSignal
    /\ er.ErrRuntime = Nil
    /\ er.ErrsShutdown = <<>>

\* C4 as stated: a returned ExitReason has either a startup error and nothing
\* else, or no startup error and exactly one of OsSignal and ErrRuntime set.
C4_ExactlyOneTrigger ==
    Returned =>
        \/ StartupShape
        \/ /\ er.ErrStartup = Nil
           /\ (er.OsSignal # NoSignal) # (er.ErrRuntime # Nil)

\* C4 as amended: a returned ExitReason has either a startup error and nothing
\* else, or no startup error and never both OsSignal and ErrRuntime set: the
\* signal is set exactly when a signal was the trigger, ErrRuntime is the value
\* read from rte when a request was the trigger, and both are unset exactly
\* when the trigger was Shutdown(nil).
C4_ExitReasonShape ==
    Returned =>
        \/ StartupShape /\ trigger = "none"
        \/ /\ er.ErrStartup = Nil
           /\ ~(er.OsSignal # NoSignal /\ er.ErrRuntime # Nil)
           /\ (er.OsSignal # NoSignal) = (trigger = "os")
           /\ trigger = "rte" => er.ErrRuntime = Head(rteFirst)
           /\ trigger \in {"os", "rte"}

\* Start returned after the trigger Shutdown(nil): neither field is set
C4_Witness ==
    /\ Returned
    /\ trigger = "rte"
    /\ er.ErrStartup = Nil
    /\ er.OsSignal = NoSignal
    /\ er.ErrRuntime = Nil

\* ---------------------------------------------------------------- C5
\* C5 as stated: once the shutdown phase has begun, the invocation of a
\* shutdown function that has not been invoked yet is never held back by
\* one that has not returned.
C5_ShutdownStepsNotDelayed ==
    (sdW.pc # "off" /\ Len(sdInvoked) < shutdownFns /\ sdActive # {})
        => ENABLED SdWorkerInvoke

\* C5 as amended: one worker runs the shutdown functions one at a time in
\* declaration order; function i+1 is invoked only after function i has
\* returned and its result has been sent into fnErrs, so a function that
\* never returns keeps every later one from being invoked.
C5_ShutdownSequential ==
    /\ \A j \in 1..Len(sdInvoked) : sdInvoked[j] = j
    /\ Cardinality(sdActive) <= 1
    /\ \A i \in sdActive : i = Len(sdInvoked)
    /\ \A j \in 2..Len(sdInvoked) :
            \E k \in 1..Len(sdResults) : sdResults[k][1] = j - 1
    /\ trigger # "none" =>
            Len(sdInvoked) <= Len(sdReceived) + Len(fnErrs) + 1

\* Start has returned on the timeout while the first of several shutdown
\* functions never returns: the others were never invoked
C5_Witness ==
    /\ Returned
    /\ shutdownFns >= 2
    /\ sdInvoked = <<1>>
    /\ sdW.pc = "run"
    /\ sdW.beh = "hang"

\* ---------------------------------------------------------------- C6
\* the results are all non-nil errors returned before the shutdown deadline,
\* and no other shutdown function will ever return
OnlyErrorsThenSilence ==
    /\ Shutdowned
    /\ shutdownFns >= 1
    /\ config.shutdownTimeout > 0
    /\ ~sdLate
    /\ \A k \in 1..Len(sdResults) : sdResults[k][2] # Nil
    /\ \/ Len(sdResults) = shutdownFns /\ sdW.pc = "done"
       \/ sdW.pc = "run" /\ sdW.beh = "hang"

C7_AllCollected ==
    (Shutdowned /\ sdCtx # "DeadlineExceeded") =>
        /\ sdIter = shutdownFns
        /\ Len(sdReceived) = shutdownFns
        /\ \A j \in 1..shutdownFns : sdInvoked[j] = j /\ sdResults[j][1] = j
        /\ Len(sdInvoked) = shutdownFns
        /\ sdReceived = Vals(sdResults)
        /\ er.ErrsShutdown = NonNil(Vals(sdResults))

\* the first of two shutdown functions failed, the second ran all the same
\* and returned nil
C7_Witness ==
    /\ Shutdowned
    /\ sdCtx # "DeadlineExceeded"
    /\ sdResults = <<<<1, ShutdownErr(1)>>, <<2, Nil>>>>
    /\ er.ErrsShutdown = <<ShutdownErr(1)>>

\* ---------------------------------------------------------------- C8
Last(seq) == seq[Len(seq)]
\* the timeout errors of ErrsShutdown (no shutdown function returns one)
TimeoutErrors == SelectSeq(er.ErrsShutdown, LAMBDA e : e = DeadlineExceeded)

\* C8: with a shutdown timeout configured, once the trigger has been taken
\* Start returns, also when shutdown functions never return; when it returns
\* before all results were received it does so on the timeout, and the
\* timeout error is then the last element of ErrsShutdown and the only one.
C8_ShutdownTimeoutReturns ==
    /\ (pc = "sdLoop" /\ config.shutdownTimeout > 0) ~> Returned
    /\ [](Shutdowned =>
            /\ Len(TimeoutErrors) <= 1
            /\ sdIter < shutdownFns =>
                  /\ config.shutdownTimeout > 0
                  /\ Len(TimeoutErrors) = 1
                  /\ Last(er.ErrsShutdown) = DeadlineExceeded
            /\ sdIter = shutdownFns => TimeoutErrors = <<>>)
    /\ [](pc = "sdLoop" => TimeoutErrors = <<>>)

\* Start has returned on the timeout while a shutdown function that never
\* returns is still running
C8_Witness ==
    /\ Shutdowned
    /\ sdW.pc = "run"
    /\ sdW.beh = "hang"
    /\ Len(er.ErrsShutdown) >= 2
    /\ Last(er.ErrsShutdown) = DeadlineExceeded

\* ---------------------------------------------------------------- C9
\* C9 as stated: when the startup deadline passed while a startup function
\* was running, Start does not enter the trigger wait or the shutdown phase,
\* and what it returns has a timeout error as ErrStartup.
C9_DeadlineWins ==
    stLate =>
        /\ pc \in {"stSelect", "done"}
        /\ trigger = "none"
        /\ Returned => er.ErrStartup = DeadlineExceeded

\* C9 as amended: when the startup deadline has passed while a startup
\* function is running and Start evaluates its select before a result of the
\* worker is in fnErrs (always so when the function never returns), Start
\* returns with ErrStartup = DeadlineExceeded without waiting for the
\* function, and never enters the trigger wait or the shutdown phase. When
\* the function returns before Start evaluates the select, Start may take the
\* worker's result instead.
C9_DeadlineObserved ==
    /\ (pc = "stSelect" /\ stCtx = "DeadlineExceeded"
            /\ stW.pc = "run" /\ stW.beh = "hang")
          ~> (Returned /\ er.ErrStartup = DeadlineExceeded
                /\ stW.pc = "run" /\ trigger = "none")
    /\ [][(pc = "stSelect" /\ stCtx = "DeadlineExceeded" /\ fnErrs = <<>>
              /\ pc' # pc)
            => (pc' = "done" /\ er'.ErrStartup = DeadlineExceeded
                  /\ stW' = stW)]_vars
    /\ [](er.ErrStartup = DeadlineExceeded =>
            (Returned /\ trigger = "none" /\ sdW.pc = "off"
               /\ er.ErrsShutdown = <<>>))

\* Start has returned the timeout error while the startup function that was
\* running when the deadline passed is still running and never returns
C9_Witness ==
    /\ Returned
    /\ stLate
    /\ er.ErrStartup = DeadlineExceeded
    /\ stW.pc = "run"
    /\ stW.beh = "hang"

\* ---------------------------------------------------------------- C10
\* C10: a call of Shutdown never blocks; rte holds at most one value, the one
\* of the first call that found it empty, and calls made while it is pending
\* leave it as it is; when the request is the trigger, ErrRuntime is that
\* value.
C10_FirstShutdownWins ==
    /\ [](Len(rte) <= ChanCap)
    /\ [](pc # "done" => \A e \in CallErrs : ENABLED Shutdown(e))
    /\ [][(rte # <<>> /\ rte' # <<>>) => rte' = rte]_vars
    /\ []((trigger = "none" /\ rte # <<>>) => rte = rteFirst)
    /\ [][(trigger = "none" /\ trigger' = "rte")
            => (er'.ErrRuntime = Head(rte) /\ rte' = <<>>)]_vars
    /\ [](trigger = "rte" => er.ErrRuntime = Head(rteFirst))

\* the request was the trigger after a call with another value was dropped
C10_Witness ==
    /\ trigger = "rte"
    /\ rteDropped
    /\ er.ErrRuntime = RuntimeErr(1)
    /\ rteFirst = <<RuntimeErr(1)>>

\* ---------------------------------------------------------------- C11
FirstNonNil(seq) == IF NonNil(seq) = <<>> THEN Nil ELSE Head(NonNil(seq))
Failed == {k \in 1..Len(reported) : reported[k][2] # Nil}

\* C11: while the context is not canceled the composed function returns
\* only after all len(fns) functions have reported and all reports have been
\* received; a result returned after all reports is the first non-nil error
\* in the order of the reports, nil exactly when every report is nil, and the
\* one failure when exactly one function failed.
C11_MultiFirstError ==
    /\ (ret # <<>> /\ ~CtxDone(callCtx)) =>
           (Len(reported) = fns /\ multiIter = fns /\ errCh = <<>>)
    /\ (ret # <<>> /\ multiIter = fns) =>
           /\ Len(reported) = fns
           /\ ret[1] = FirstNonNil(Vals(reported))
           /\ (ret[1] = Nil) <=> (Failed = {})
           /\ \A k \in Failed : Failed = {k} => ret[1] = reported[k][2]

\* two functions failed, the one that reported second has the lower index
C11_Witness ==
    /\ ret # <<>>
    /\ ~CtxDone(callCtx)
    /\ Len(reported) = 2
    /\ reported[1][2] # Nil
    /\ reported[2][2] # Nil
    /\ reported[1][1] > reported[2][1]
    /\ ret[1] = reported[1][2]

\* ---------------------------------------------------------------- C12
Stalled == {i \in 1..fns : fnState[i] = "hang"}

BadOption(opt) ==
    \/ /\ opt.code \in {optionStartupTimeout, optionShutdownTimeout}
       /\ (opt.value.type # "time.Duration" \/ opt.value.d <= 0)
    \/ /\ opt.code = optionSignals
       /\ opt.value.type # "[]os.Signal"
Resolution ==
    parseOptions([startupTimeout |-> 0, shutdownTimeout |-> 0,
                  signals |-> Signals], opts)

\* C13: the resolution fails exactly when some option is a timeout option
\* with a non-positive or non-duration payload or a signals option whose
\* payload is not a signal list; Start then has returned as soon as it has
\* left the parsing, startupError is the resolution error, the other fields
\* are empty, and no startup or shutdown step was invoked.
C13_ResolutionFailure ==
    /\ (Resolution.err # Nil) <=> (\E k \in 1..Len(opts) : BadOption(opts[k]))
    /\ (pc # "parse" /\ Resolution.err # Nil) =>
           /\ pc = "done"
           /\ er = [OsSignal |-> NoSignal, ErrStartup |-> Resolution.err,
                    ErrRuntime |-> Nil, ErrsShutdown |-> <<>>]
           /\ er.ErrStartup.src = "options"
           /\ stInvoked = <<>> /\ sdInvoked = <<>>
           /\ stW.pc = "off" /\ sdW.pc = "off"
           /\ trigger = "none"

\* Start returned the error of a bad second option, with steps to run and a
\* Shutdown request pending
C13_Witness ==
    /\ pc = "done"
    /\ Len(opts) = 2
    /\ ~BadOption(opts[1])
    /\ BadOption(opts[2])
    /\ er.ErrStartup = ErrShutdownNotPositive
    /\ startupFns > 0 /\ shutdownFns > 0
    /\ rte # <<>>

\* ---------------------------------------------------------------- C14
\* the startup phase failed: Start has recorded a startup error, or a startup
\* function has returned an error
StartupFailed == er.ErrStartup # Nil \/ \E k \in 1..Len(stResults) : StartupFailedAt(k)

EmptyExitReason ==
    [OsSignal |-> NoSignal, ErrStartup |-> Nil, ErrRuntime |-> Nil,
     ErrsShutdown |-> <<>>]
\* no startup and no shutdown function, the request that rte accepted is
\* Shutdown(nil), made before Start, during startup or during the trigger wait
NoStepsNilRequest == startupFns = 0 /\ shutdownFns = 0 /\ rteFirst = <<Nil>>

C16_NoInvocationAfterTimeout ==
    [][(Returned /\ stCtx = "DeadlineExceeded" /\ er.ErrStartup = DeadlineExceeded)
           => stInvoked' = stInvoked]_vars

\* ---------------------------------------------------------------- C17
\* a worker is at a send into fnErrs and the channel is full
StWorkerAtFullSend ==
    /\ stW.pc = "sendErr" \/ (stW.pc = "loop" /\ stW.i > startupFns)
    /\ Len(fnErrs) >= ChanCap
SdWorkerAtFullSend == sdW.pc = "send" /\ Len(fnErrs) >= ChanCap
\* no function that was invoked is one that never returns
NoStepHangs ==
    /\ ~(stW.pc = "run" /\ stW.beh = "hang")
    /\ ~(sdW.pc = "run" /\ sdW.beh = "hang")

\* C17: when every step returns, no worker is left blocked on a send into
\* fnErrs after Start has returned (nothing receives from fnErrs any more, so
\* such a worker never terminates).
C17_NoWorkerBlockedAfterReturn ==
    (Returned /\ NoStepHangs) => ~StWorkerAtFullSend /\ ~SdWorkerAtFullSend

\* ---------------------------------------------------------------- C18
\* the errors of shutdown functions among the collected ones, in order
StepErrors == SelectSeq(er.ErrsShutdown, LAMBDA e : e.src = "shutdown")

\* C18: a shutdown function is invoked only when no other one is running
\* and it is the next in declaration order; the errors of shutdown functions
\* in ErrsShutdown are errors those functions returned and appear in
\* declaration order, each at most once.
C18_ShutdownErrorsInOrder ==
    /\ [][sdInvoked' # sdInvoked =>
              /\ sdActive = {}
              /\ sdInvoked' = Append(sdInvoked, Len(sdInvoked) + 1)
              /\ Len(sdResults) = Len(sdInvoked)]_vars
    /\ [](/\ \A a, b \in 1..Len(StepErrors) :
                 a < b => StepErrors[a].idx < StepErrors[b].idx
          /\ \A a \in 1..Len(StepErrors) :
                 \E k \in 1..Len(sdResults) :
                     sdResults[k] = <<StepErrors[a].idx, StepErrors[a]>>)

\* both shutdown functions failed and both errors were collected
C18_Witness ==
    /\ Returned
    /\ er.ErrsShutdown = <<ShutdownErr(1), ShutdownErr(2)>>

\* ---------------------------------------------------------------- C19
\* what the shutdown phase has taken or can still take from fnErrs
ShutdownIntake == sdReceived \o fnErrs

\* C19: while Start waits for a trigger, and so when it enters the shutdown
\* phase, fnErrs is empty and the startup worker has finished; in the
\* shutdown phase every value in or received from fnErrs is the result of a
\* shutdown function, in order and one per function, and every element of
\* ErrsShutdown is the error a shutdown function returned, at most once per
\* function, or the error of the shutdown context.
C19_NoStartupResultInShutdown ==
    /\ pc = "await" => (fnErrs = <<>> /\ stW.pc = "done")
    /\ trigger # "none" =>
        /\ stW.pc = "done"
        /\ Len(ShutdownIntake) <= Len(sdResults)
        /\ \A k \in 1..Len(ShutdownIntake) :
               ShutdownIntake[k] = sdResults[k][2] /\ sdResults[k][1] = k
        /\ \A a \in 1..Len(er.ErrsShutdown) :
               \/ er.ErrsShutdown[a] = DeadlineExceeded
               \/ \E k \in 1..Len(sdResults) :
                      sdResults[k] = <<k, er.ErrsShutdown[a]>>
        /\ \A a, b \in 1..Len(StepErrors) :
               StepErrors[a] = StepErrors[b] => a = b

\* after a startup with functions, the shutdown phase has received the nil of
\* the first shutdown function and the error of the second
C19_Witness ==
    /\ Returned
    /\ startupFns >= 1
    /\ sdReceived = <<Nil, ShutdownErr(2)>>
    /\ er.ErrsShutdown = <<ShutdownErr(2)>>

\* ---------------------------------------------------------------- C20
\* C20: a request in rte that the trigger select has not consumed is still
\* in rte when Start returns; a later call of Start begins with it; while
\* that call has not taken a trigger the request stays in rte; once its
\* startup has succeeded the trigger select can take the request at once and
\* is the only case ready unless a signal has been delivered to that call;
\* when the request is the trigger, ErrRuntime is the carried value, whatever
\* calls of Shutdown were made in between.
C20_RequestCarriedOver ==
    /\ (Returned /\ trigger # "rte" /\ rteFirst # <<>>) => rte = rteFirst
    /\ (again /\ carried # <<>>) =>
        /\ rteFirst = carried
        /\ trigger = "none" => rte = carried
        /\ pc = "await" => (ENABLED AwaitRte /\ (osSig = <<>> => ~ENABLED AwaitSig))
        /\ trigger = "rte" => er.ErrRuntime = carried[1]
        /\ (Returned /\ er.ErrStartup = Nil) => trigger \in {"rte", "os"}
        /\ trigger = "os" => er.OsSignal \in signals

\* a second call of Start returned the error that was pending when it began
C20_Witness ==
    /\ again
    /\ Returned
    /\ carried = <<RuntimeErr(1)>>
    /\ startupFns >= 1
    /\ trigger = "rte"
    /\ er.ErrRuntime = RuntimeErr(1)
====
